---------------------------- MODULE Spec2Model ----------------------------
(***************************************************************************)
(* Model of src/data_collection/error_handler.py of PropInsight: the       *)
(* CircuitBreaker state machine, the retry_with_backoff and                *)
(* handle_scraper_errors wrappers, the ErrorHandler (classifier, error     *)
(* counters, breaker registry, statistics) and the PerformanceMonitor.     *)
(*                                                                         *)
(* The specifications share the definitions below:                         *)
(*   Spec          several threads calling CircuitBreaker.call on one      *)
(*                 breaker while the wall clock advances;                  *)
(*   SpecRetry     one thread running a function decorated with            *)
(*                 retry_with_backoff, the function going through a        *)
(*                 breaker;                                                *)
(*   SpecLedger    several threads calling ErrorHandler.log_error;         *)
(*   SpecRegistry  several threads calling                                 *)
(*                 ErrorHandler.get_circuit_breaker;                       *)
(*   SpecClassify  an error is categorized, given a severity and logged;   *)
(*   SpecStats     several threads calling log_error and                   *)
(*                 get_error_statistics;                                   *)
(*   SpecStatsRegistry  several threads calling get_circuit_breaker and    *)
(*                 get_error_statistics;                                   *)
(*   SpecLocks     several threads using a breaker, the handler and the    *)
(*                 monitor together;                                       *)
(*   SpecMonitor   several threads calling record_operation and            *)
(*                 get_performance_summary;                                *)
(*   SpecReentrant  as Spec, the operations calling call() of the same     *)
(*                 breaker again, every enabled thread going on;           *)
(*   SpecScraper   one thread calling a function decorated with            *)
(*                 handle_scraper_errors.                                  *)
(* Time is counted in milliseconds.                                        *)
(***************************************************************************)
EXTENDS Integers, Sequences, FiniteSets, TLC

\* ------------------------------------------------------------------ bounds
NumThreads == 2
MaxThreshold == 2
MaxFailureCount == 3
\* failing calls of a breaker, in all
MaxFailedCalls == 3
MaxDays == 1
MaxTimeSteps == 3
TimeStep == 30000
MaxLogCalls == 3
MaxAttempts == 3
MaxRecords == 2
\* log_error and record_operation calls together, where the three components
\* are used together
MaxLockOps == 2
\* operations recorded for a source before the threads start
PriorRecords == 9

\* ------------------------------------------------------- program constants
RecentWindow == 10
SecondsPerDay == 86400
MsPerSecond == 1000
DefaultRecoveryTimeout == 60
DefaultFailureThreshold == 5
DefaultAttemptNumber == 1

Threads == 1..NumThreads
NoThread == 0
None == -1

VARIABLES
    \* CircuitBreaker fields
    failure_threshold, recovery_timeout, failure_count, last_failure_time,
    state, cb_lock,
    \* wall clock (datetime.now()), in milliseconds
    now,
    \* position of each thread inside CircuitBreaker.call
    pc,
    \* history: the last gate decision of call(), the last completed call, the
    \* failing calls in a row, and the number of failing calls completed so far
    gate, outcome, streak, failed_calls,
    \* ErrorHandler fields: error_stats, lock, circuit_breakers; the
    \* CircuitBreaker instances constructed so far; the logging sink
    error_stats, h_lock, circuit_breakers, instances, log_sink,
    \* position and locals of each thread inside an ErrorHandler method, and
    \* the breaker get_circuit_breaker last returned to it
    lpc, local, held,
    \* history: log_error calls begun, and counter updates completed
    log_calls, stored,
    \* retry_with_backoff: the RetryConfig, whether the decorated function
    \* goes through the breaker, the wrapper's position, its locals attempt
    \* and last_exception, what the call gave its caller, and the history of
    \* its invocations and sleeps
    config, via_breaker, rpc, attempt, last_exception, result, trace,
    \* the error and ErrorContext handed to categorize_error and
    \* determine_severity, and what the two returned
    sample, verdict,
    \* the fields of each CircuitBreaker instance the handler constructed, and
    \* for each thread the value get_error_statistics is building or has
    \* returned to it
    instance_fields, statistics,
    \* PerformanceMonitor fields: metrics and lock; position and arguments of
    \* each thread inside a PerformanceMonitor method, the record_operation
    \* calls begun (history), the summary last returned to each thread, and
    \* the number of record_operation calls completed for each source
    \* (history)
    metrics, m_lock, mpc, mlocal, rec_calls, summary, completed,
    \* handle_scraper_errors: the wrapper's position, the exception its except
    \* clause caught, what the call gave its caller, and the ledger's counters
    \* and the number of log_error calls when the wrapper was entered (history)
    hpc, caught, hresult, at_entry

breakerVars == <<failure_threshold, recovery_timeout, failure_count,
                 last_failure_time, state, cb_lock>>
callVars == <<pc, gate, outcome, streak, failed_calls>>
handlerVars == <<error_stats, h_lock, circuit_breakers, instances, log_sink>>
ledgerVars == <<handlerVars, lpc, local, held, log_calls, stored>>
retryVars == <<config, via_breaker, rpc, attempt, last_exception, result, trace>>
classifyVars == <<sample, verdict>>
statsVars == <<instance_fields, statistics>>
monitorVars == <<metrics, m_lock, mpc, mlocal, rec_calls, summary, completed>>
wrapperVars == <<hpc, caught, hresult, at_entry>>
vars == <<breakerVars, now, callVars, ledgerVars, retryVars, classifyVars,
          statsVars, monitorVars, wrapperVars>>

\* ------------------------------------------------------------ CircuitBreaker

\* timedelta.seconds of a timedelta of td milliseconds: the seconds field of
\* the normalised (days, seconds, microseconds) triple, 0 <= seconds < 86400.
TimedeltaSeconds(td) == (td \div MsPerSecond) % SecondsPerDay

\* CircuitBreaker._should_attempt_reset
ShouldAttemptReset(lft, t, timeout) ==
    IF lft = None THEN TRUE ELSE TimedeltaSeconds(t - lft) >= timeout

\* call()'s test of self.state: whether the call goes on to func
GateAdmits(st, lft, t, timeout) ==
    st # "open" \/ ShouldAttemptReset(lft, t, timeout)

\* self.state after that test, for a call that goes on
GateState(st) == IF st = "open" THEN "half-open" ELSE st

\* `with self.lock` can be entered
LockFreeNoMutex(l) == TRUE

LockFree(l) == l = NoThread

\* the state after CircuitBreaker._on_failure's threshold test
OnFailureStateStrict(cnt, thr, st) == IF cnt > thr THEN "open" ELSE st

OnFailureState(cnt, thr, st) == IF cnt >= thr THEN "open" ELSE st

\* the fields after an _on_success that only closes the breaker
OnSuccessKeepsCount(cnt) == [failure_count |-> cnt, state |-> "closed"]

\* the fields after CircuitBreaker._on_success
OnSuccess(cnt) == [failure_count |-> 0, state |-> "closed"]

\* the fields after a rejection that is counted like a failure
OnRejectionCounted(cnt, lft, t) ==
    [failure_count |-> cnt + 1, last_failure_time |-> t]

\* the fields after call() raised CircuitBreakerOpenError: none is assigned
OnRejection(cnt, lft, t) == [failure_count |-> cnt, last_failure_time |-> lft]

\* last_failure_time after an _on_failure that does not store the time
FailureTimeKept(lft, t) == lft

\* the time _on_failure stores in last_failure_time
FailureTime(lft, t) == t

\* -------------------------------------------------------------- ErrorHandler

\* ErrorContext.scraper_name values, also used as service names
Scrapers == {"X", "Y"}

Categories == {"network", "rate_limit", "authentication", "parsing",
               "validation", "resource", "unknown"}

\* ErrorHandler.error_patterns, in the dict's insertion order
ErrorPatterns == <<
    [category |-> "network",
     patterns |-> <<"connection", "timeout", "network", "dns", "socket",
                    "unreachable", "refused", "reset">>],
    [category |-> "rate_limit",
     patterns |-> <<"rate limit", "too many requests", "429", "throttle",
                    "quota exceeded", "limit exceeded">>],
    [category |-> "authentication",
     patterns |-> <<"unauthorized", "forbidden", "401", "403", "authentication",
                    "invalid credentials", "access denied">>],
    [category |-> "parsing",
     patterns |-> <<"parse", "json", "xml", "html", "decode", "encoding",
                    "malformed", "invalid format">>],
    [category |-> "validation",
     patterns |-> <<"validation", "invalid", "missing", "required",
                    "constraint", "format error">>],
    [category |-> "resource",
     patterns |-> <<"memory", "disk", "cpu", "resource", "limit",
                    "out of", "insufficient">>] >>

UpperCase == "ABCDEFGHIJKLMNOPQRSTUVWXYZ"
LowerCase == "abcdefghijklmnopqrstuvwxyz"

LowerChar(ch) ==
    IF \E i \in 1..Len(UpperCase) : SubSeq(UpperCase, i, i) = ch
    THEN LET i == CHOOSE j \in 1..Len(UpperCase) : SubSeq(UpperCase, j, j) = ch
         IN  SubSeq(LowerCase, i, i)
    ELSE ch

\* str.lower()
RECURSIVE Lower(_)
Lower(s) ==
    IF Len(s) = 0 THEN ""
    ELSE LowerChar(SubSeq(s, 1, 1)) \o Lower(SubSeq(s, 2, Len(s)))

\* `pattern in text`
Contains(text, pattern) ==
    \E i \in 1..(Len(text) - Len(pattern) + 1) :
        SubSeq(text, i, i + Len(pattern) - 1) = pattern

\* whether some pattern of ErrorPatterns[k] occurs in the message or type name
CategoryMatches(k, error_msg, error_type) ==
    \E j \in 1..Len(ErrorPatterns[k].patterns) :
        \/ Contains(error_msg, ErrorPatterns[k].patterns[j])
        \/ Contains(error_type, ErrorPatterns[k].patterns[j])

\* ErrorHandler.categorize_error
CategorizeErrorLastMatch(error) ==
    LET error_msg == Lower(error.msg)
        error_type == Lower(error.type)
        hits == {k \in 1..Len(ErrorPatterns) :
                    CategoryMatches(k, error_msg, error_type)}
    IN  IF hits = {} THEN "unknown"
        ELSE ErrorPatterns[CHOOSE k \in hits : \A m \in hits : k >= m].category

CategorizeError(error) ==
    LET error_msg == Lower(error.msg)
        error_type == Lower(error.type)
        hits == {k \in 1..Len(ErrorPatterns) :
                    CategoryMatches(k, error_msg, error_type)}
    IN  IF hits = {} THEN "unknown"
        ELSE ErrorPatterns[CHOOSE k \in hits : \A m \in hits : k <= m].category

\* ErrorContext(scraper_name, function_name, url): attempt_number takes its
\* default
ErrorContext(scraper_name, url) ==
    [scraper_name |-> scraper_name, url |-> url,
     attempt_number |-> DefaultAttemptNumber]

\* ErrorHandler.determine_severity
DetermineSeverityUnknownLow(error, context) ==
    LET category == CategorizeError(error)
    IN  IF category = "authentication" THEN "critical"
        ELSE IF category = "resource" THEN "high"
        ELSE IF category \in {"network", "rate_limit"} THEN "medium"
        ELSE "low"

DetermineSeverity(error, context) ==
    LET category == CategorizeError(error)
    IN  IF category = "authentication" THEN "critical"
        ELSE IF category = "resource" THEN "high"
        ELSE IF category \in {"network", "rate_limit"} THEN "medium"
        ELSE IF category \in {"parsing", "validation"} THEN "low"
        ELSE "medium"

\* the logger method log_error picks for a severity
LogLevel(severity) ==
    IF severity = "critical" THEN "critical"
    ELSE IF severity = "high" THEN "error"
    ELSE IF severity = "medium" THEN "warning"
    ELSE "info"

EmptyDict == [k \in {} |-> 0]

\* d[k] = v
DictSet(d, k, v) == [x \in DOMAIN d \cup {k} |-> IF x = k THEN v ELSE d[x]]

\* d.get(k, default)
DictGet(d, k, default) == IF k \in DOMAIN d THEN d[k] ELSE default

\* self.error_stats.setdefault(scraper_name, {}): the dict afterwards
SetDefault(stats, scraper) ==
    IF scraper \in DOMAIN stats THEN stats ELSE DictSet(stats, scraper, EmptyDict)

\* the value log_error stores: scraper_stats.get(category, 0) + 1
IncrementedSame(read) == read

Incremented(read) == read + 1

\* scraper_stats[category] = value
StoreCount(stats, scraper, category, value) ==
    DictSet(stats, scraper, DictSet(stats[scraper], category, value))

\* sum(d.values())
RECURSIVE SumValues(_)
SumValues(d) ==
    IF DOMAIN d = {} THEN 0
    ELSE LET k == CHOOSE x \in DOMAIN d : TRUE
         IN  d[k] + SumValues([x \in DOMAIN d \ {k} |-> d[x]])

\* total_errors of get_error_statistics
TotalErrors(stats) ==
    SumValues([sc \in DOMAIN stats |-> SumValues(stats[sc])])

\* by_scraper of get_error_statistics
ByScraper(stats) == stats

\* the errors the model's callers log
LoggedErrors == {
    [type |-> "ConnectionError", msg |-> "Connection refused"],
    [type |-> "ValueError", msg |-> "Malformed JSON"],
    [type |-> "Exception", msg |-> "Scraping failed"] }

\* CircuitBreakerOpenError("Circuit breaker is open")
BreakerOpenError ==
    [type |-> "CircuitBreakerOpenError", msg |-> "Circuit breaker is open"]

\* the errors the decorated function of the model raises
OpErrors == {
    [type |-> "ValueError", msg |-> "Malformed JSON"],
    [type |-> "Exception", msg |-> "Scraping failed"],
    [type |-> "HTTPError", msg |-> "401 Unauthorized"] }

\* Messages for the classifier: one keyword of a category each, in mixed
\* case
SampleKeyword ==
    [network |-> "Timeout", rate_limit |-> "Too Many Requests",
     authentication |-> "401", parsing |-> "Malformed",
     validation |-> "Required", resource |-> "Disk"]

\* the messages of the errors handed to the classifier: no keyword, one
\* keyword, a keyword that is part of another category's keyword, and the
\* keywords of two categories in either order
SampleMessages ==
    {"", "Scraping failed", "Invalid format", "Rate limit reached",
     "Timeout: invalid format"}
    \cup {SampleKeyword[a] : a \in DOMAIN SampleKeyword}
    \cup {SampleKeyword[a] \o " - " \o SampleKeyword[b] :
             a, b \in DOMAIN SampleKeyword}

\* the exception classes of those errors
SampleTypes == {"Exception", "ValueError", "ConnectionError", "JSONDecodeError"}

ClassifierErrors ==
    {[type |-> ty, msg |-> m] : ty \in SampleTypes, m \in SampleMessages}

\* the ErrorContext values handed to determine_severity
SampleContexts ==
    {ErrorContext(sc, url) : sc \in Scrapers, url \in {"", "https://gov.sg/403"}}

AllErrors == LoggedErrors \cup OpErrors \cup {BreakerOpenError} \cup ClassifierErrors

\* the category and the default severity of each of them
CategoryOf == [e \in AllErrors |-> CategorizeError(e)]
SeverityOf == [e \in AllErrors |-> DetermineSeverity(e, ErrorContext("", ""))]

\* the entry log_error hands to the logger
LogEntry(scraper, category, severity, attempt_number) ==
    [level |-> LogLevel(severity), scraper |-> scraper, category |-> category,
     severity |-> severity, attempt |-> attempt_number]

\* the logging sink after one more entry (the sink is kept as the number of
\* entries of each content)
SinkAfterLog(sink, entry) == DictSet(sink, entry, DictGet(sink, entry, 0) + 1)

\* error_stats after the `with self.lock` block of log_error
StatsAfterLog(stats, scraper, category) ==
    LET withScraper == SetDefault(stats, scraper)
    IN  StoreCount(withScraper, scraper, category,
                   Incremented(DictGet(withScraper[scraper], category, 0)))

NoLocal == [scraper |-> "", category |-> "", severity |-> "", read |-> 0]
NoHeld == [name |-> "", id |-> 0]

\* ErrorHandler.__init__
InitHandler ==
    /\ error_stats = EmptyDict
    /\ h_lock = NoThread
    /\ circuit_breakers = EmptyDict
    /\ instances = << >>
    /\ log_sink = EmptyDict

InitLedgerThreads ==
    /\ lpc = [t \in Threads |-> "idle"]
    /\ local = [t \in Threads |-> NoLocal]
    /\ held = [t \in Threads |-> NoHeld]
    /\ log_calls = 0
    /\ stored = [k \in Scrapers \X Categories |-> 0]

\* the fields of a CircuitBreaker() built with the constructor's defaults
NewBreakerFields ==
    [state |-> "closed", failure_count |-> 0, last_failure_time |-> None]

\* the fields of such a breaker after failure_threshold failures at time 0
OpenBreakerFields ==
    [state |-> "open", failure_count |-> DefaultFailureThreshold,
     last_failure_time |-> 0]

\* no call of get_error_statistics made
NoStats ==
    [kind |-> "none", total_errors |-> 0, keys |-> {}, by_scraper |-> EmptyDict,
     circuit_breaker_states |-> EmptyDict, iter_len |-> 0,
     held |-> [t \in Threads |-> NoHeld]]

\* by_scraper of a value get_error_statistics returned, as its holder reads
\* it now: dict(self.error_stats) copies the outer dict only, so each value
\* is the handler's own inner dict
BySnapshot(sn, live) == [s \in sn.keys |-> live[s]]

\* {name: cb.state for name, cb in self.circuit_breakers.items()}; beside
\* each state, the instance it was read from
CircuitBreakerStates(registry, fields) ==
    [name \in DOMAIN registry |->
        [id |-> registry[name], state |-> fields[registry[name]].state]]

\* what get_error_statistics does to self.error_stats
ErrorStatsResetOnRead(counters) == EmptyDict

ErrorStatsAfterStatistics(counters) == counters

InitStatsIdle ==
    /\ instance_fields = << >>
    /\ statistics = [t \in Threads |-> NoStats]

\* -------------------------------------------------------- PerformanceMonitor

\* the arguments of a PerformanceMonitor method; scraper_name "None" stands
\* for the argument left out
NoMetricArgs ==
    [scraper_name |-> "", operation |-> "", duration |-> 0, success |-> FALSE]

\* the dict record_operation appends
Metric(args, t) ==
    [timestamp |-> t, operation |-> args.operation, duration |-> args.duration,
     success |-> args.success]

\* `if scraper_name not in self.metrics: self.metrics[scraper_name] = []`
WithList(m, scraper_name) ==
    IF scraper_name \in DOMAIN m THEN m ELSE DictSet(m, scraper_name, << >>)

\* self.metrics[scraper_name] = [metric]
AppendMetricReplacing(m, scraper_name, metric) ==
    DictSet(m, scraper_name, <<metric>>)

\* self.metrics[scraper_name].append(metric)
AppendMetric(m, scraper_name, metric) ==
    DictSet(m, scraper_name, Append(m[scraper_name], metric))

\* the monitor's lock when a `with self.lock` block is left
MonitorLockKept(t) == t

MonitorLockReleased(t) == NoThread

\* sum(seq)
RECURSIVE SumSeq(_)
SumSeq(seq) ==
    IF Len(seq) = 0 THEN 0 ELSE seq[1] + SumSeq(SubSeq(seq, 2, Len(seq)))

\* [op["duration"] for op in operations]
Durations(operations) ==
    [i \in DOMAIN operations |-> operations[i].duration]

\* [op["success"] for op in operations], True counting as 1 in sum()
Successes(operations) ==
    [i \in DOMAIN operations |-> IF operations[i].success THEN 1 ELSE 0]

\* operations[:10]
RecentFirst(operations) ==
    SubSeq(operations, 1, IF Len(operations) > RecentWindow
                          THEN RecentWindow ELSE Len(operations))

\* operations[-10:]
Recent(operations) ==
    SubSeq(operations, IF Len(operations) > RecentWindow
                       THEN Len(operations) - RecentWindow + 1 ELSE 1,
           Len(operations))

\* the entry get_performance_summary builds for a non-empty list; the two
\* quotients are kept as numerator and denominator
SummaryEntry(operations) ==
    [total_operations |-> Len(operations),
     success_rate |-> <<SumSeq(Successes(operations)), Len(operations)>>,
     avg_duration |-> <<SumSeq(Durations(operations)), Len(operations)>>,
     min_duration |-> CHOOSE d \in {operations[i].duration : i \in DOMAIN operations} :
                         \A i \in DOMAIN operations : d <= operations[i].duration,
     max_duration |-> CHOOSE d \in {operations[i].duration : i \in DOMAIN operations} :
                         \A i \in DOMAIN operations : d >= operations[i].duration,
     recent_operations |-> Recent(operations)]

\* the sources operations are recorded for: a scraper's name, and the empty
\* name
Sources == {"X", ""}

\* `if scraper_name:` - None and the empty string are false
Truthy(scraper_name) == scraper_name \notin {"None", ""}

\* get_performance_summary(scraper_name): lists that are empty are skipped
PerformanceSummary(m, scraper_name) ==
    LET scrapers == IF Truthy(scraper_name)
                    THEN DictSet(EmptyDict, scraper_name,
                                 DictGet(m, scraper_name, << >>))
                    ELSE m
    IN  [name \in {n \in DOMAIN scrapers : Len(scrapers[n]) > 0} |->
            SummaryEntry(scrapers[name])]

\* PerformanceMonitor.__init__
InitMonitor ==
    /\ metrics = EmptyDict
    /\ m_lock = NoThread
    /\ mpc = [t \in Threads |-> "idle"]
    /\ mlocal = [t \in Threads |-> NoMetricArgs]
    /\ rec_calls = 0
    /\ summary = [t \in Threads |-> EmptyDict]
    /\ completed = [s \in Sources |-> 0]

\* ----------------------------------------------------- handle_scraper_errors

\* the wrapper has not been entered
NoEntry == [error_stats |-> EmptyDict, log_calls |-> 0]

\* no function decorated with handle_scraper_errors has been called
InitWrapperIdle ==
    /\ hpc = "idle"
    /\ caught = [type |-> "", msg |-> ""]
    /\ hresult = [kind |-> "none", error |-> [type |-> "", msg |-> ""]]
    /\ at_entry = NoEntry

\* the exception the wrapper raises from its except clause, having caught
\* error: a new Exception
ReraisedAsException(error) == [type |-> "Exception", msg |-> error.msg]

\* the exception the wrapper raises from its except clause: `raise e`
Reraised(error) == error

\* -------------------------------------------------------- retry_with_backoff

\* func.__module__, the scraper_name of the wrapper's ErrorContext
FuncModule == "__main__"

NoError == [type |-> "", msg |-> ""]
NoResult == [kind |-> "none", error |-> NoError]

\* RetryConfig(), times in milliseconds
DefaultRetryConfig ==
    [max_attempts |-> 3, base_delay |-> 1000, max_delay |-> 300000,
     exponential_base |-> 2, jitter |-> TRUE,
     retry_on_exceptions |-> {"Exception"}, stop_on_exceptions |-> {}]

\* isinstance(error, classes): every exception class of the model derives
\* from Exception
IsInstance(type, classes) == type \in classes \/ "Exception" \in classes

\* the except clause of the wrapper that takes an error of this type
ExceptClauseRetryFirst(type, cfg) ==
    IF IsInstance(type, cfg.retry_on_exceptions) THEN "retry"
    ELSE IF IsInstance(type, cfg.stop_on_exceptions) THEN "stop"
    ELSE "propagate"

ExceptClauseBreakerFatal(type, cfg) ==
    IF type = "CircuitBreakerOpenError"
          \/ IsInstance(type, cfg.stop_on_exceptions) THEN "stop"
    ELSE IF IsInstance(type, cfg.retry_on_exceptions) THEN "retry"
    ELSE "propagate"

\* an except clause for retry_on_exceptions that takes every exception
ExceptClauseRetryAll(type, cfg) ==
    IF IsInstance(type, cfg.stop_on_exceptions) THEN "stop" ELSE "retry"

ExceptClause(type, cfg) ==
    IF IsInstance(type, cfg.stop_on_exceptions) THEN "stop"
    ELSE IF IsInstance(type, cfg.retry_on_exceptions) THEN "retry"
    ELSE "propagate"

\* range(1, config.max_attempts + 1) has a value after k
HasNextAttemptInclusive(k, cfg) == k <= cfg.max_attempts

HasNextAttempt(k, cfg) == k < cfg.max_attempts

\* `if attempt < config.max_attempts`
SleepsAfterInclusive(k, cfg) == k <= cfg.max_attempts

SleepsAfter(k, cfg) == k < cfg.max_attempts

\* where the wrapper is after `return func(*args, **kwargs)` when func returns
AfterReturnLoops == "call"

AfterReturn == "done"

\* `last_exception = e`
LastExceptionFirst(prev, e) == IF prev = NoError THEN e ELSE prev

LastException(prev, e) == e

RECURSIVE Pow(_, _)
Pow(b, n) == IF n = 0 THEN 1 ELSE b * Pow(b, n - 1)

Min(a, b) == IF a <= b THEN a ELSE b

\* min(base_delay * exponential_base ** (attempt - 1), max_delay)
BackoffDelayUncapped(cfg, k) == cfg.base_delay * Pow(cfg.exponential_base, k - 1)

BackoffDelay(cfg, k) ==
    Min(cfg.base_delay * Pow(cfg.exponential_base, k - 1), cfg.max_delay)

\* random.random(), in hundredths
RandomDraws == {0, 99}

\* delay *= (0.5 + random.random() * 0.5)
Jittered(delay, r) == (delay * (100 + r)) \div 200

InvokeEvent(ran, error) ==
    [ev |-> "invoke", op |-> ran, error |-> error, ms |-> 0]
SleepEvent(delay) ==
    [ev |-> "sleep", op |-> FALSE, error |-> NoError, ms |-> delay]

\* no decorated function is running
InitRetryIdle ==
    /\ config = DefaultRetryConfig
    /\ via_breaker = FALSE
    /\ rpc = "idle"
    /\ attempt = 0
    /\ last_exception = NoError
    /\ result = NoResult
    /\ trace = << >>

NoSample == [error |-> NoError, context |-> ErrorContext("", "")]
NoVerdict == [category |-> "", severity |-> ""]

\* nothing has been handed to the classifier
InitClassifyIdle ==
    /\ sample = NoSample
    /\ verdict = NoVerdict

NoGate == [seen |-> "none", elapsed |-> 0, admitted |-> FALSE]
NoOutcome == [kind |-> "none", probe |-> FALSE, at |-> 0]

\* CircuitBreaker.__init__, with the constructor's arguments drawn from
\* small sets
InitBreaker ==
    /\ failure_threshold \in 1..MaxThreshold
    /\ recovery_timeout \in {0, DefaultRecoveryTimeout, SecondsPerDay}
    /\ failure_count = 0
    /\ last_failure_time = None
    /\ state = "closed"
    /\ cb_lock = NoThread

Init ==
    /\ InitBreaker
    /\ now = 0
    /\ pc = [t \in Threads |-> "idle"]
    /\ gate = NoGate
    /\ outcome = NoOutcome
    /\ streak = 0
    /\ failed_calls = 0
    /\ InitHandler
    /\ InitLedgerThreads
    /\ InitRetryIdle
    /\ InitClassifyIdle
    /\ InitStatsIdle
    /\ InitMonitor
    /\ InitWrapperIdle

\* The wall clock advances, by a short step or by a whole day.
Tick ==
    /\ \E d \in {TimeStep, SecondsPerDay * MsPerSecond} :
          /\ d = TimeStep =>
                (now % (SecondsPerDay * MsPerSecond)) + d <= MaxTimeSteps * TimeStep
          /\ d # TimeStep =>
                now + d < (MaxDays + 1) * SecondsPerDay * MsPerSecond
          /\ now' = now + d
    /\ UNCHANGED <<breakerVars, callVars, ledgerVars, retryVars, classifyVars, statsVars, monitorVars, wrapperVars>>

\* call(): `with self.lock`, then the test of self.state; the call is either
\* rejected (CircuitBreakerOpenError, lock released) or goes on to func.
CallEnter(t) ==
    /\ pc[t] \in {"idle", "nested"}
    /\ LockFree(cb_lock)
    /\ LET elapsed == IF last_failure_time = None THEN 0
                      ELSE now - last_failure_time
           admit == GateAdmits(state, last_failure_time, now, recovery_timeout)
       IN  /\ gate' = [seen |-> state, elapsed |-> elapsed, admitted |-> admit]
           /\ IF admit
                 THEN /\ state' = GateState(state)
                      /\ cb_lock' = t
                      /\ pc' = [pc EXCEPT ![t] = "func"]
                      /\ UNCHANGED <<outcome, failure_count, last_failure_time>>
                 ELSE /\ outcome' = [kind |-> "rejected", probe |-> FALSE, at |-> now]
                      /\ failure_count'
                            = OnRejection(failure_count, last_failure_time, now).failure_count
                      /\ last_failure_time'
                            = OnRejection(failure_count, last_failure_time, now).last_failure_time
                      /\ UNCHANGED <<state, cb_lock, pc>>
    /\ UNCHANGED <<failure_threshold, recovery_timeout,
                   now, streak, failed_calls, ledgerVars, retryVars, classifyVars, statsVars, monitorVars, wrapperVars>>

\* func returns: _on_success(), the lock is released, the result returned.
FuncReturn(t) ==
    /\ pc[t] = "func"
    /\ failure_count' = OnSuccess(failure_count).failure_count
    /\ state' = OnSuccess(failure_count).state
    /\ cb_lock' = NoThread
    /\ pc' = [pc EXCEPT ![t] = "idle"]
    /\ outcome' = [kind |-> "ok", probe |-> state = "half-open", at |-> now]
    /\ streak' = 0
    /\ UNCHANGED <<failure_threshold, recovery_timeout, last_failure_time, now, failed_calls,
                   gate, ledgerVars, retryVars, classifyVars, statsVars, monitorVars, wrapperVars>>

\* func raises: the first two statements of _on_failure().
FuncRaise(t) ==
    /\ pc[t] = "func"
    /\ failure_count < MaxFailureCount
    /\ failed_calls < MaxFailedCalls
    /\ failure_count' = failure_count + 1
    /\ last_failure_time' = FailureTime(last_failure_time, now)
    /\ pc' = [pc EXCEPT ![t] = "on_failure"]
    /\ outcome' = [kind |-> "failing", probe |-> state = "half-open", at |-> now]
    /\ UNCHANGED <<failure_threshold, recovery_timeout, state, cb_lock, now,
                   gate, streak, failed_calls, ledgerVars, retryVars, classifyVars, statsVars, monitorVars, wrapperVars>>

\* the threshold test of _on_failure(), then the lock is released and the
\* exception re-raised.
OnFailureCheck(t) ==
    /\ pc[t] = "on_failure"
    /\ state' = OnFailureState(failure_count, failure_threshold, state)
    /\ cb_lock' = NoThread
    /\ pc' = [pc EXCEPT ![t] = "idle"]
    /\ outcome' = [outcome EXCEPT !.kind = "fail"]
    /\ streak' = streak + 1
    /\ failed_calls' = failed_calls + 1
    /\ UNCHANGED <<failure_threshold, recovery_timeout, failure_count,
                   last_failure_time, now, gate, ledgerVars, retryVars, classifyVars, statsVars, monitorVars, wrapperVars>>

\* func calls call() of the breaker it is running through (a recursive
\* function or two functions calling each other, decorated alike): the
\* thread is at `with self.lock` again, and threading.Lock is not reentrant.
\* How deep the calls are nested is not kept, as a nested call has to get
\* the lock before anything else.
NestedCall(t) ==
    /\ pc[t] = "func"
    /\ pc' = [pc EXCEPT ![t] = "nested"]
    /\ UNCHANGED <<breakerVars, now, gate, outcome, streak, failed_calls,
                   ledgerVars, retryVars, classifyVars, statsVars, monitorVars, wrapperVars>>

Next ==
    \/ Tick
    \/ \E t \in Threads : CallEnter(t)
    \/ \E t \in Threads : FuncReturn(t)
    \/ \E t \in Threads : FuncRaise(t)
    \/ \E t \in Threads : OnFailureCheck(t)

Spec == Init /\ [][Next]_vars

\* The operations may call call() of the same breaker again.
NextReentrant ==
    \/ Tick
    \/ \E t \in Threads : CallEnter(t)
    \/ \E t \in Threads : FuncReturn(t)
    \/ \E t \in Threads : FuncRaise(t)
    \/ \E t \in Threads : OnFailureCheck(t)
    \/ \E t \in Threads : NestedCall(t)

\* the code of the operation thread t runs comes to its end: it returns,
\* raises, or calls call() again
OperationStep(t) == FuncReturn(t) \/ FuncRaise(t) \/ NestedCall(t)

\* Every operation terminates, and a thread that can get the lock, or is in
\* _on_failure, goes on.
SpecReentrant ==
    /\ Init
    /\ [][NextReentrant]_vars
    /\ \A t \in Threads :
          /\ WF_vars(OperationStep(t))
          /\ WF_vars(OnFailureCheck(t))
          /\ WF_vars(pc[t] = "nested" /\ CallEnter(t))

TypeOK ==
    /\ state \in {"closed", "open", "half-open"}
    /\ failure_count \in 0..MaxFailureCount
    /\ cb_lock \in Threads \cup {NoThread}
    /\ pc \in [Threads -> {"idle", "func", "on_failure", "nested"}]

\* ------------------------------------------------ ErrorHandler's operations

\* log_error(error, context, severity): the severity and the category are
\* computed before the lock is taken.
LogErrorBegin(t, error, scraper, severity) ==
    /\ lpc[t] = "idle"
    /\ log_calls < MaxLogCalls
    /\ local' = [local EXCEPT ![t] =
                    [scraper |-> scraper,
                     category |-> CategoryOf[error],
                     severity |-> IF severity = "None"
                                  THEN SeverityOf[error] ELSE severity,
                     read |-> 0]]
    /\ lpc' = [lpc EXCEPT ![t] = "log_lock"]
    /\ log_calls' = log_calls + 1
    /\ UNCHANGED <<handlerVars, held, stored, breakerVars, now, callVars, retryVars, classifyVars, statsVars, monitorVars, wrapperVars>>

\* `with self.lock`: setdefault of the scraper's dict, then the read of the
\* category's count.
LogErrorRead(t) ==
    /\ lpc[t] = "log_lock"
    /\ LockFree(h_lock)
    /\ h_lock' = t
    /\ error_stats' = SetDefault(error_stats, local[t].scraper)
    /\ local' = [local EXCEPT ![t].read =
                    DictGet(error_stats'[local[t].scraper], local[t].category, 0)]
    /\ lpc' = [lpc EXCEPT ![t] = "log_store"]
    /\ UNCHANGED <<circuit_breakers, instances, log_sink, held, log_calls,
                   stored, breakerVars, now, callVars, retryVars, classifyVars, statsVars, monitorVars, wrapperVars>>

\* the store of the incremented count; the lock is released.
LogErrorStore(t) ==
    /\ lpc[t] = "log_store"
    /\ error_stats' = StoreCount(error_stats, local[t].scraper, local[t].category,
                                 Incremented(local[t].read))
    /\ h_lock' = NoThread
    /\ stored' = [stored EXCEPT ![<<local[t].scraper, local[t].category>>] = @ + 1]
    /\ lpc' = [lpc EXCEPT ![t] = "log_emit"]
    /\ UNCHANGED <<circuit_breakers, instances, log_sink, local, held, log_calls,
                   breakerVars, now, callVars, retryVars, classifyVars, statsVars, monitorVars, wrapperVars>>

\* the structured entry goes to the logger at the level of its severity.
LogErrorEmit(t) ==
    /\ lpc[t] = "log_emit"
    /\ log_sink' = SinkAfterLog(log_sink,
                       LogEntry(local[t].scraper, local[t].category,
                                local[t].severity, DefaultAttemptNumber))
    /\ lpc' = [lpc EXCEPT ![t] = "idle"]
    /\ local' = [local EXCEPT ![t] = NoLocal]
    /\ UNCHANGED <<error_stats, h_lock, circuit_breakers, instances, held,
                   log_calls, stored, breakerVars, now, callVars, retryVars, classifyVars, statsVars, monitorVars, wrapperVars>>

\* get_circuit_breaker(service_name): the test `service_name not in
\* self.circuit_breakers`.
GcbCheck(t, name) ==
    /\ lpc[t] = "idle"
    /\ local' = [local EXCEPT ![t] = [NoLocal EXCEPT !.scraper = name]]
    /\ lpc' = [lpc EXCEPT ![t] = IF name \in DOMAIN circuit_breakers
                                 THEN "gcb_return" ELSE "gcb_create"]
    /\ UNCHANGED <<handlerVars, held, log_calls, stored, breakerVars, now, callVars, retryVars, classifyVars, statsVars, monitorVars, wrapperVars>>

\* self.circuit_breakers[service_name] = CircuitBreaker()
GcbCreate(t) ==
    /\ lpc[t] = "gcb_create"
    /\ instances' = Append(instances, local[t].scraper)
    /\ circuit_breakers' = DictSet(circuit_breakers, local[t].scraper,
                                   Len(instances) + 1)
    /\ instance_fields' = Append(instance_fields, NewBreakerFields)
    /\ lpc' = [lpc EXCEPT ![t] = "gcb_return"]
    /\ UNCHANGED <<error_stats, h_lock, log_sink, local, held, log_calls, stored,
                   breakerVars, now, callVars, retryVars, classifyVars, statistics, monitorVars, wrapperVars>>

\* return self.circuit_breakers[service_name]
GcbReturn(t) ==
    /\ lpc[t] = "gcb_return"
    /\ held' = [held EXCEPT ![t] = [name |-> local[t].scraper,
                                    id |-> circuit_breakers[local[t].scraper]]]
    /\ lpc' = [lpc EXCEPT ![t] = "idle"]
    /\ local' = [local EXCEPT ![t] = NoLocal]
    /\ UNCHANGED <<handlerVars, log_calls, stored, breakerVars, now, callVars, retryVars, classifyVars, statsVars, monitorVars, wrapperVars>>

\* The ErrorHandler's breakers are built with the constructor's defaults.
InitLedger ==
    /\ failure_threshold = DefaultFailureThreshold
    /\ recovery_timeout = DefaultRecoveryTimeout
    /\ failure_count = 0
    /\ last_failure_time = None
    /\ state = "closed"
    /\ cb_lock = NoThread
    /\ now = 0
    /\ pc = [t \in Threads |-> "idle"]
    /\ gate = NoGate
    /\ outcome = NoOutcome
    /\ streak = 0
    /\ failed_calls = 0
    /\ InitHandler
    /\ InitLedgerThreads
    /\ InitRetryIdle
    /\ InitClassifyIdle
    /\ InitStatsIdle
    /\ InitMonitor
    /\ InitWrapperIdle

NextLedger ==
    \/ \E t \in Threads, error \in LoggedErrors, scraper \in Scrapers,
          severity \in {"None", "critical"} :
            LogErrorBegin(t, error, scraper, severity)
    \/ \E t \in Threads : LogErrorRead(t)
    \/ \E t \in Threads : LogErrorStore(t)
    \/ \E t \in Threads : LogErrorEmit(t)

SpecLedger == InitLedger /\ [][NextLedger]_vars

NextRegistry ==
    \/ \E t \in Threads, name \in Scrapers : GcbCheck(t, name)
    \/ \E t \in Threads : GcbCreate(t)
    \/ \E t \in Threads : GcbReturn(t)

SpecRegistry == InitLedger /\ [][NextRegistry]_vars

\* ------------------------------------------- retry_with_backoff's wrapper

\* The decorated function is called once: retry_with_backoff's wrapper
\* starts with last_exception = None and attempt = 1.
WrapperEnter ==
    /\ rpc = "idle"
    /\ rpc' = "call"
    /\ attempt' = 1
    /\ last_exception' = NoError
    /\ UNCHANGED <<config, via_breaker, result, trace, breakerVars, now, callVars, classifyVars, statsVars, monitorVars, wrapperVars,
                   ledgerVars>>

\* whether func, when it goes through the breaker, is rejected by it
Rejected ==
    via_breaker /\ ~GateAdmits(state, last_failure_time, now, recovery_timeout)

\* the wrapper leaves its loop: `if last_exception: raise last_exception`
LoopExit(error) ==
    /\ rpc' = "done"
    /\ result' = [kind |-> "raised", error |-> error]
    /\ UNCHANGED attempt

\* the loop goes on to its next attempt, or ends
LoopContinue(error) ==
    IF HasNextAttempt(attempt, config)
    THEN /\ rpc' = "call"
         /\ attempt' = attempt + 1
         /\ UNCHANGED result
    ELSE LoopExit(error)

\* `return func(*args, **kwargs)`: func returns (through the breaker, whose
\* _on_success runs, when it goes through one).
AttemptReturns ==
    /\ rpc = "call"
    /\ ~Rejected
    /\ IF via_breaker
          THEN /\ failure_count' = OnSuccess(failure_count).failure_count
               /\ state' = OnSuccess(failure_count).state
          ELSE UNCHANGED <<failure_count, state>>
    /\ trace' = Append(trace, InvokeEvent(TRUE, NoError))
    /\ result' = [kind |-> "returned", error |-> NoError]
    /\ rpc' = AfterReturn
    /\ UNCHANGED <<failure_threshold, recovery_timeout, last_failure_time, cb_lock,
                   now, callVars, classifyVars, statsVars, monitorVars, wrapperVars, ledgerVars, config, via_breaker, attempt,
                   last_exception>>

\* func raises: CircuitBreakerOpenError when the breaker rejects the call,
\* else the error its operation raises (and the breaker's _on_failure runs);
\* then the except clause that takes the error.
AttemptRaises(e) ==
    /\ rpc = "call"
    /\ LET error == IF Rejected THEN BreakerOpenError ELSE e
           clause == ExceptClause(error.type, config)
           raised == LastException(last_exception, error)
           severity == IF clause = "stop" THEN "critical" ELSE SeverityOf[error]
       IN  /\ IF via_breaker /\ ~Rejected
                 THEN /\ failure_count' = failure_count + 1
                      /\ last_failure_time' = FailureTime(last_failure_time, now)
                      /\ state' = OnFailureState(failure_count + 1, failure_threshold,
                                                 GateState(state))
                 ELSE UNCHANGED <<failure_count, last_failure_time, state>>
           /\ trace' = Append(trace, InvokeEvent(~Rejected, error))
           /\ IF clause = "propagate"
                 THEN UNCHANGED <<error_stats, log_sink>>
                 ELSE /\ error_stats' = StatsAfterLog(error_stats, FuncModule,
                                                      CategoryOf[error])
                      /\ log_sink' = SinkAfterLog(log_sink,
                                        LogEntry(FuncModule, CategoryOf[error],
                                                 severity, attempt))
           /\ IF clause = "retry"
                 THEN /\ last_exception' = raised
                      /\ IF SleepsAfter(attempt, config)
                            THEN /\ rpc' = "sleep"
                                 /\ UNCHANGED <<attempt, result>>
                            ELSE LoopContinue(raised)
                 ELSE /\ LoopExit(error)
                      /\ UNCHANGED last_exception
    /\ UNCHANGED <<failure_threshold, recovery_timeout, cb_lock, now, callVars, classifyVars, statsVars, monitorVars, wrapperVars,
                   h_lock, circuit_breakers, instances, lpc, local, held, log_calls,
                   stored, config, via_breaker>>

\* time.sleep(delay), r being the value random.random() returns
Sleep(r) ==
    /\ rpc = "sleep"
    /\ LET delay == IF config.jitter
                    THEN Jittered(BackoffDelay(config, attempt), r)
                    ELSE BackoffDelay(config, attempt)
       IN  /\ trace' = Append(trace, SleepEvent(delay))
           /\ now' = now + delay
    /\ LoopContinue(last_exception)
    /\ UNCHANGED <<breakerVars, callVars, classifyVars, statsVars, monitorVars, wrapperVars, ledgerVars, config, via_breaker,
                   last_exception>>

\* A RetryConfig and a decorated function; when the function goes through a
\* breaker, the breaker is fresh or has just opened.
InitRetry ==
    /\ config \in
          {[max_attempts |-> n, base_delay |-> 1000, max_delay |-> md,
            exponential_base |-> 2, jitter |-> j,
            retry_on_exceptions |-> ro, stop_on_exceptions |-> so] :
              n \in 1..MaxAttempts, md \in {1500, 10000, 300000}, j \in BOOLEAN,
              ro \in {{"Exception"}, {"ValueError"}},
              so \in {{}, {"ValueError"}, {"CircuitBreakerOpenError"}}}
    /\ via_breaker \in BOOLEAN
    /\ now = 0
    /\ cb_lock = NoThread
    /\ IF via_breaker
          THEN /\ failure_threshold \in 1..MaxThreshold
               /\ recovery_timeout \in {2, DefaultRecoveryTimeout}
               /\ \/ failure_count = 0 /\ last_failure_time = None /\ state = "closed"
                  \/ /\ failure_count = failure_threshold
                     /\ last_failure_time = now
                     /\ state = "open"
          ELSE /\ failure_threshold = DefaultFailureThreshold
               /\ recovery_timeout = DefaultRecoveryTimeout
               /\ failure_count = 0
               /\ last_failure_time = None
               /\ state = "closed"
    /\ pc = [t \in Threads |-> "idle"]
    /\ gate = NoGate
    /\ outcome = NoOutcome
    /\ streak = 0
    /\ failed_calls = 0
    /\ InitHandler
    /\ InitLedgerThreads
    /\ rpc = "idle"
    /\ attempt = 0
    /\ last_exception = NoError
    /\ result = NoResult
    /\ trace = << >>
    /\ InitClassifyIdle
    /\ InitStatsIdle
    /\ InitMonitor
    /\ InitWrapperIdle

NextRetry ==
    \/ WrapperEnter
    \/ AttemptReturns
    \/ \E e \in OpErrors : AttemptRaises(e)
    \/ \E r \in RandomDraws : Sleep(r)

SpecRetry == InitRetry /\ [][NextRetry]_vars

\* ------------------------------------------------- get_error_statistics

\* get_error_statistics(): `with self.lock`, total_errors, the copy
\* dict(self.error_stats), and the iterator over self.circuit_breakers.
StatsBegin(t) ==
    /\ lpc[t] = "idle"
    /\ LockFree(h_lock)
    /\ h_lock' = t
    /\ statistics' = [statistics EXCEPT ![t] =
                    [kind |-> "building",
                     total_errors |-> TotalErrors(error_stats),
                     keys |-> DOMAIN error_stats,
                     by_scraper |-> ByScraper(error_stats),
                     circuit_breaker_states |-> EmptyDict,
                     iter_len |-> Cardinality(DOMAIN circuit_breakers),
                     held |-> [u \in Threads |-> NoHeld]]]
    /\ lpc' = [lpc EXCEPT ![t] = "stats_iter"]
    /\ UNCHANGED <<error_stats, circuit_breakers, instances, log_sink, local, held,
                   log_calls, stored, instance_fields, breakerVars, now, callVars,
                   retryVars, classifyVars, monitorVars, wrapperVars>>

\* the dict comprehension over self.circuit_breakers ends: it raises
\* RuntimeError if the dict changed size since the iterator was made, else
\* the value is returned; the lock is released either way. With the value is
\* kept which breaker each thread had been handed by then.
StatsReturn(t) ==
    /\ lpc[t] = "stats_iter"
    /\ statistics' = [statistics EXCEPT ![t] =
                    IF Cardinality(DOMAIN circuit_breakers) # statistics[t].iter_len
                    THEN [NoStats EXCEPT !.kind = "raised"]
                    ELSE [statistics[t] EXCEPT
                            !.kind = "returned",
                            !.circuit_breaker_states =
                                CircuitBreakerStates(circuit_breakers, instance_fields),
                            !.held = held]]
    /\ error_stats' = ErrorStatsAfterStatistics(error_stats)
    /\ h_lock' = NoThread
    /\ lpc' = [lpc EXCEPT ![t] = "idle"]
    /\ UNCHANGED <<circuit_breakers, instances, log_sink, local, held, log_calls,
                   stored, instance_fields, breakerVars, now, callVars, retryVars,
                   classifyVars, monitorVars, wrapperVars>>

\* A handler with no breaker yet, or with one breaker for "X" that has
\* opened.
InitStats ==
    /\ failure_threshold = DefaultFailureThreshold
    /\ recovery_timeout = DefaultRecoveryTimeout
    /\ failure_count = 0
    /\ last_failure_time = None
    /\ state = "closed"
    /\ cb_lock = NoThread
    /\ now = 0
    /\ pc = [t \in Threads |-> "idle"]
    /\ gate = NoGate
    /\ outcome = NoOutcome
    /\ streak = 0
    /\ failed_calls = 0
    /\ error_stats = EmptyDict
    /\ h_lock = NoThread
    /\ log_sink = EmptyDict
    /\ \/ /\ circuit_breakers = EmptyDict
          /\ instances = << >>
          /\ instance_fields = << >>
       \/ /\ circuit_breakers = DictSet(EmptyDict, "X", 1)
          /\ instances = <<"X">>
          /\ instance_fields = <<OpenBreakerFields>>
    /\ InitLedgerThreads
    /\ InitRetryIdle
    /\ InitClassifyIdle
    /\ statistics = [t \in Threads |-> NoStats]
    /\ InitMonitor
    /\ InitWrapperIdle

\* the error logged while the statistics are read
StatsError == [type |-> "ConnectionError", msg |-> "Connection refused"]

\* Threads log errors and read the statistics.
NextStats ==
    \/ \E t \in Threads, scraper \in Scrapers :
            LogErrorBegin(t, StatsError, scraper, "None")
    \/ \E t \in Threads : LogErrorRead(t)
    \/ \E t \in Threads : LogErrorStore(t)
    \/ \E t \in Threads : LogErrorEmit(t)
    \/ \E t \in Threads : StatsBegin(t)
    \/ \E t \in Threads : StatsReturn(t)

SpecStats == InitStats /\ [][NextStats]_vars

\* Threads ask for breakers and read the statistics.
NextStatsRegistry ==
    \/ \E t \in Threads, name \in Scrapers : GcbCheck(t, name)
    \/ \E t \in Threads : GcbCreate(t)
    \/ \E t \in Threads : GcbReturn(t)
    \/ \E t \in Threads : StatsBegin(t)
    \/ \E t \in Threads : StatsReturn(t)

SpecStatsRegistry == InitLedger /\ [][NextStatsRegistry]_vars

\* ------------------------------------- handle_scraper_errors' wrapper

\* the thread that calls the decorated function, and the scraper_name the
\* function is decorated with
HseThread == 1
HseScraper == "X"

\* The decorated function is called: the ErrorContext is made, and
\* get_circuit_breaker(scraper_name) makes the breaker if there is none.
HseEnter ==
    /\ hpc = "idle"
    /\ lpc[HseThread] = "idle"
    /\ hpc' = "call"
    /\ caught' = NoError
    /\ hresult' = NoResult
    /\ at_entry' = [error_stats |-> error_stats, log_calls |-> log_calls]
    /\ IF HseScraper \in DOMAIN circuit_breakers
          THEN UNCHANGED <<circuit_breakers, instances, instance_fields>>
          ELSE /\ instances' = Append(instances, HseScraper)
               /\ circuit_breakers' = DictSet(circuit_breakers, HseScraper,
                                              Len(instances) + 1)
               /\ instance_fields' = Append(instance_fields, NewBreakerFields)
    /\ UNCHANGED <<error_stats, h_lock, log_sink, lpc, local, held, log_calls,
                   stored, statistics, breakerVars, now, callVars, retryVars,
                   classifyVars, monitorVars>>

\* cb.call(func) rejects the call
HseRejected == ~GateAdmits(state, last_failure_time, now, recovery_timeout)

\* cb.call(func): the call is let through, func returns, _on_success(); the
\* wrapper returns the result.
HseReturns ==
    /\ hpc = "call"
    /\ ~HseRejected
    /\ failure_count' = OnSuccess(failure_count).failure_count
    /\ state' = OnSuccess(failure_count).state
    /\ hresult' = [kind |-> "returned", error |-> NoError]
    /\ hpc' = "idle"
    /\ UNCHANGED <<failure_threshold, recovery_timeout, last_failure_time, cb_lock,
                   caught, at_entry, now, callVars, ledgerVars, retryVars,
                   classifyVars, statsVars, monitorVars>>

\* cb.call(func) raises: CircuitBreakerOpenError when the breaker rejects
\* the call, else the error func raises, after _on_failure(); the wrapper's
\* `except Exception as e` catches it.
HseRaises(error) ==
    /\ hpc = "call"
    /\ log_calls < MaxLogCalls
    /\ IF HseRejected
          THEN /\ caught' = BreakerOpenError
               /\ failure_count'
                     = OnRejection(failure_count, last_failure_time, now).failure_count
               /\ last_failure_time'
                     = OnRejection(failure_count, last_failure_time, now).last_failure_time
               /\ UNCHANGED state
          ELSE /\ caught' = error
               /\ failure_count' = failure_count + 1
               /\ last_failure_time' = FailureTime(last_failure_time, now)
               /\ state' = OnFailureState(failure_count + 1, failure_threshold,
                                          GateState(state))
    /\ hpc' = "except"
    /\ UNCHANGED <<failure_threshold, recovery_timeout, cb_lock, hresult, at_entry,
                   now, callVars, ledgerVars, retryVars, classifyVars, statsVars,
                   monitorVars>>

\* the wrapper is in its except clause and has not called log_error yet
HseToLog == hpc = "except" /\ log_calls = at_entry.log_calls

\* log_error(e, context) has returned: `raise e`.
HseReraise ==
    /\ hpc = "except"
    /\ log_calls = at_entry.log_calls + 1
    /\ lpc[HseThread] = "idle"
    /\ hresult' = [kind |-> "raised", error |-> Reraised(caught)]
    /\ hpc' = "idle"
    /\ UNCHANGED <<caught, at_entry, breakerVars, now, callVars, ledgerVars,
                   retryVars, classifyVars, statsVars, monitorVars>>

\* A handler whose breaker for the scraper is not made yet, or has just
\* opened.
InitScraper ==
    /\ failure_threshold = DefaultFailureThreshold
    /\ recovery_timeout = DefaultRecoveryTimeout
    /\ cb_lock = NoThread
    /\ now = 0
    /\ pc = [t \in Threads |-> "idle"]
    /\ gate = NoGate
    /\ outcome = NoOutcome
    /\ streak = 0
    /\ failed_calls = 0
    /\ error_stats = EmptyDict
    /\ h_lock = NoThread
    /\ log_sink = EmptyDict
    /\ \/ /\ circuit_breakers = EmptyDict
          /\ instances = << >>
          /\ instance_fields = << >>
          /\ failure_count = NewBreakerFields.failure_count
          /\ last_failure_time = NewBreakerFields.last_failure_time
          /\ state = NewBreakerFields.state
       \/ /\ circuit_breakers = DictSet(EmptyDict, HseScraper, 1)
          /\ instances = <<HseScraper>>
          /\ instance_fields = <<OpenBreakerFields>>
          /\ failure_count = OpenBreakerFields.failure_count
          /\ last_failure_time = OpenBreakerFields.last_failure_time
          /\ state = OpenBreakerFields.state
    /\ InitLedgerThreads
    /\ InitRetryIdle
    /\ InitClassifyIdle
    /\ statistics = [t \in Threads |-> NoStats]
    /\ InitMonitor
    /\ InitWrapperIdle

\* The decorated function is called again and again, while the clock
\* advances.
NextScraper ==
    \/ Tick
    \/ HseEnter
    \/ HseReturns
    \/ \E error \in OpErrors : HseRaises(error)
    \/ HseToLog /\ LogErrorBegin(HseThread, caught, HseScraper, "None")
    \/ LogErrorRead(HseThread)
    \/ LogErrorStore(HseThread)
    \/ LogErrorEmit(HseThread)
    \/ HseReraise

SpecScraper == InitScraper /\ [][NextScraper]_vars

\* ------------------------------------- PerformanceMonitor's operations

\* record_operation(scraper_name, operation, duration, success) is called.
RecordBegin(t, scraper_name, operation, duration, success) ==
    /\ mpc[t] = "idle"
    /\ rec_calls < MaxRecords
    /\ mlocal' = [mlocal EXCEPT ![t] =
                     [scraper_name |-> scraper_name, operation |-> operation,
                      duration |-> duration, success |-> success]]
    /\ mpc' = [mpc EXCEPT ![t] = "rec_lock"]
    /\ rec_calls' = rec_calls + 1
    /\ UNCHANGED <<metrics, m_lock, summary, completed, breakerVars, now, callVars,
                   ledgerVars, retryVars, classifyVars, statsVars, wrapperVars>>

\* `with self.lock`, and the list of the scraper is made if there is none.
RecordLock(t) ==
    /\ mpc[t] = "rec_lock"
    /\ LockFree(m_lock)
    /\ m_lock' = t
    /\ metrics' = WithList(metrics, mlocal[t].scraper_name)
    /\ mpc' = [mpc EXCEPT ![t] = "rec_append"]
    /\ UNCHANGED <<mlocal, rec_calls, summary, completed, breakerVars, now, callVars,
                   ledgerVars, retryVars, classifyVars, statsVars, wrapperVars>>

\* the metric is appended and the lock released.
RecordAppend(t) ==
    /\ mpc[t] = "rec_append"
    /\ metrics' = AppendMetric(metrics, mlocal[t].scraper_name,
                               Metric(mlocal[t], now))
    /\ m_lock' = MonitorLockReleased(t)
    /\ mpc' = [mpc EXCEPT ![t] = "idle"]
    /\ mlocal' = [mlocal EXCEPT ![t] = NoMetricArgs]
    /\ completed' = [completed EXCEPT ![mlocal[t].scraper_name] = @ + 1]
    /\ UNCHANGED <<rec_calls, summary, breakerVars, now, callVars, ledgerVars,
                   retryVars, classifyVars, statsVars, wrapperVars>>

\* get_performance_summary(scraper_name): `with self.lock`.
SummaryBegin(t, scraper_name) ==
    /\ mpc[t] = "idle"
    /\ LockFree(m_lock)
    /\ m_lock' = t
    /\ mlocal' = [mlocal EXCEPT ![t] =
                     [NoMetricArgs EXCEPT !.scraper_name = scraper_name]]
    /\ mpc' = [mpc EXCEPT ![t] = "summary"]
    /\ UNCHANGED <<metrics, rec_calls, summary, completed, breakerVars, now, callVars,
                   ledgerVars, retryVars, classifyVars, statsVars, wrapperVars>>

\* the summary is built and returned, and the lock released.
SummaryReturn(t) ==
    /\ mpc[t] = "summary"
    /\ summary' = [summary EXCEPT ![t] =
                      PerformanceSummary(metrics, mlocal[t].scraper_name)]
    /\ m_lock' = MonitorLockReleased(t)
    /\ mpc' = [mpc EXCEPT ![t] = "idle"]
    /\ mlocal' = [mlocal EXCEPT ![t] = NoMetricArgs]
    /\ UNCHANGED <<metrics, rec_calls, completed, breakerVars, now, callVars, ledgerVars,
                   retryVars, classifyVars, statsVars, wrapperVars>>

\* the i-th of the operations recorded for a source earlier on
PriorMetric(i) ==
    [timestamp |-> i - PriorRecords - 1, operation |-> "fetch",
     duration |-> 1 + (i % 2), success |-> i % 3 # 0]

\* the list of a source after PriorRecords calls of record_operation
PriorOperations == [i \in 1..PriorRecords |-> PriorMetric(i)]

\* the durations and outcomes record_operation is called with
RecordInputs ==
    {[duration |-> 1, success |-> TRUE], [duration |-> 2, success |-> FALSE]}

\* A monitor, new or with the operations recorded for "X" earlier on.
InitMonitorSpec ==
    /\ failure_threshold = DefaultFailureThreshold
    /\ recovery_timeout = DefaultRecoveryTimeout
    /\ failure_count = 0
    /\ last_failure_time = None
    /\ state = "closed"
    /\ cb_lock = NoThread
    /\ now = 0
    /\ pc = [t \in Threads |-> "idle"]
    /\ gate = NoGate
    /\ outcome = NoOutcome
    /\ streak = 0
    /\ failed_calls = 0
    /\ InitHandler
    /\ InitLedgerThreads
    /\ InitRetryIdle
    /\ InitClassifyIdle
    /\ InitStatsIdle
    /\ InitWrapperIdle
    /\ m_lock = NoThread
    /\ mpc = [t \in Threads |-> "idle"]
    /\ mlocal = [t \in Threads |-> NoMetricArgs]
    /\ rec_calls = 0
    /\ summary = [t \in Threads |-> EmptyDict]
    /\ \/ /\ metrics = EmptyDict
          /\ completed = [s \in Sources |-> 0]
       \/ /\ metrics = DictSet(EmptyDict, "X", PriorOperations)
          /\ completed = [s \in Sources |-> IF s = "X" THEN PriorRecords ELSE 0]

\* Threads record operations and ask for summaries.
NextMonitor ==
    \/ \E t \in Threads, scraper_name \in Sources, input \in RecordInputs :
            RecordBegin(t, scraper_name, "fetch", input.duration, input.success)
    \/ \E t \in Threads : RecordLock(t)
    \/ \E t \in Threads : RecordAppend(t)
    \/ \E t \in Threads, scraper_name \in Sources \cup {"None"} :
            SummaryBegin(t, scraper_name)
    \/ \E t \in Threads : SummaryReturn(t)

SpecMonitor == InitMonitorSpec /\ [][NextMonitor]_vars

\* ------------------------------------ the three components used together

\* thread t is in no method of the ErrorHandler or the PerformanceMonitor
Outside(t) == lpc[t] = "idle" /\ mpc[t] = "idle"

\* thread t can call a method of the handler or the monitor: from its own
\* code, or from the operation it is running inside CircuitBreaker.call
CanCall(t) == Outside(t) /\ pc[t] \in {"idle", "func"}

\* thread t can log an error or record a metric
CanWrite(t) == CanCall(t) /\ log_calls + rec_calls < MaxLockOps

\* thread t is in its own code, and has not read the statistics yet
CanReadStatistics(t) ==
    Outside(t) /\ pc[t] = "idle" /\ statistics[t].kind = "none"

\* thread t is in its own code, and has had no summary with an entry yet
CanReadSummary(t) == Outside(t) /\ pc[t] = "idle" /\ summary[t] = EmptyDict

\* A breaker that opens at its first failure, a handler and a monitor, all
\* new.
InitLocks ==
    /\ failure_threshold = 1
    /\ recovery_timeout = DefaultRecoveryTimeout
    /\ failure_count = 0
    /\ last_failure_time = None
    /\ state = "closed"
    /\ cb_lock = NoThread
    /\ now = 0
    /\ pc = [t \in Threads |-> "idle"]
    /\ gate = NoGate
    /\ outcome = NoOutcome
    /\ streak = 0
    /\ failed_calls = 0
    /\ InitHandler
    /\ InitLedgerThreads
    /\ InitRetryIdle
    /\ InitClassifyIdle
    /\ InitStatsIdle
    /\ InitMonitor
    /\ InitWrapperIdle

\* Threads call call(), log_error(), get_error_statistics(),
\* record_operation() and get_performance_summary(); the operation wrapped by
\* call() may itself log errors and record metrics.
NextLocks ==
    \/ \E t \in Threads : Outside(t) /\ CallEnter(t)
    \/ \E t \in Threads : Outside(t) /\ FuncReturn(t)
    \/ \E t \in Threads : Outside(t) /\ FuncRaise(t)
    \/ \E t \in Threads : OnFailureCheck(t)
    \/ \E t \in Threads : CanWrite(t) /\ LogErrorBegin(t, StatsError, "X", "None")
    \/ \E t \in Threads : LogErrorRead(t)
    \/ \E t \in Threads : LogErrorStore(t)
    \/ \E t \in Threads : LogErrorEmit(t)
    \/ \E t \in Threads : CanReadStatistics(t) /\ StatsBegin(t)
    \/ \E t \in Threads : StatsReturn(t)
    \/ \E t \in Threads : CanWrite(t) /\ RecordBegin(t, "X", "fetch", 1, TRUE)
    \/ \E t \in Threads : RecordLock(t)
    \/ \E t \in Threads : RecordAppend(t)
    \/ \E t \in Threads : CanReadSummary(t) /\ SummaryBegin(t, "None")
    \/ \E t \in Threads : SummaryReturn(t)

SpecLocks == InitLocks /\ [][NextLocks]_vars

\* --------------------------------------------------------- the classifier

\* categorize_error(error) and determine_severity(error, context) are called
\* on the sample.
Classify ==
    /\ verdict = NoVerdict
    /\ verdict' = [category |-> CategorizeError(sample.error),
                   severity |-> DetermineSeverity(sample.error, sample.context)]
    /\ UNCHANGED <<sample, breakerVars, now, callVars, ledgerVars, retryVars,
                   statsVars, monitorVars, wrapperVars>>

\* An error and a context for the classifier; the handler is new.
InitClassify ==
    /\ failure_threshold = DefaultFailureThreshold
    /\ recovery_timeout = DefaultRecoveryTimeout
    /\ failure_count = 0
    /\ last_failure_time = None
    /\ state = "closed"
    /\ cb_lock = NoThread
    /\ now = 0
    /\ pc = [t \in Threads |-> "idle"]
    /\ gate = NoGate
    /\ outcome = NoOutcome
    /\ streak = 0
    /\ failed_calls = 0
    /\ InitHandler
    /\ InitLedgerThreads
    /\ InitRetryIdle
    /\ sample \in {[error |-> e, context |-> c] :
                      e \in ClassifierErrors, c \in SampleContexts}
    /\ verdict = NoVerdict
    /\ InitStatsIdle
    /\ InitMonitor
    /\ InitWrapperIdle

\* The sample is classified, and logged by log_error with the severity
\* omitted.
NextClassify ==
    \/ Classify
    \/ LogErrorBegin(1, sample.error, sample.context.scraper_name, "None")
    \/ LogErrorRead(1)
    \/ LogErrorStore(1)
    \/ LogErrorEmit(1)

SpecClassify == InitClassify /\ [][NextClassify]_vars

\* ------------------------------------------------- claims about call()

InCriticalSection == {t \in Threads : pc[t] # "idle"}

\* C1: from a fresh breaker (closed, no failures; a successful call restores
\* exactly that), once failure_threshold calls in a row have failed the state
\* is open; and a call() that finds the breaker open before recovery_timeout
\* has elapsed since last_failure_time raises CircuitBreakerOpenError without
\* going on to the wrapped operation.
C1_OpensAndRejects ==
    /\ (cb_lock = NoThread /\ streak >= failure_threshold) => state = "open"
    /\ (gate.seen = "open" /\ gate.elapsed < recovery_timeout * MsPerSecond)
          => ~gate.admitted

C1_Witness ==
    /\ streak = failure_threshold
    /\ state = "open"
    /\ gate.seen = "open"
    /\ gate.elapsed > 0
    /\ gate.elapsed < recovery_timeout * MsPerSecond
    /\ outcome.kind = "rejected"

\* C2: a call() that finds the breaker open is let through as the half-open
\* probe if and only if the time elapsed since last_failure_time is at least
\* recovery_timeout, whatever the magnitude of either.
C2_GateIffElapsed ==
    gate.seen = "open" =>
        (gate.admitted <=> gate.elapsed >= recovery_timeout * MsPerSecond)

\* C3: once recovery_timeout has elapsed on an open breaker the next call()
\* goes through half-open to the operation; a probe that succeeds leaves the
\* breaker closed with no failures counted, a probe that fails leaves it open
\* with last_failure_time at the time of that failure.
C3_HalfOpenOutcome ==
    /\ (gate.seen = "open" /\ gate.elapsed >= recovery_timeout * MsPerSecond)
          => gate.admitted
    /\ (outcome.probe /\ outcome.kind = "ok")
          => (state = "closed" /\ failure_count = 0)
    /\ (outcome.probe /\ outcome.kind = "fail")
          => /\ cb_lock = NoThread => state = "open"
             /\ last_failure_time = outcome.at

\* The part of C3 after the gate: what a probe that ran leaves behind.
C3_ProbeOutcome ==
    /\ (outcome.probe /\ outcome.kind = "ok")
          => (state = "closed" /\ failure_count = 0)
    /\ (outcome.probe /\ outcome.kind = "fail")
          => /\ cb_lock = NoThread => state = "open"
             /\ last_failure_time = outcome.at

\* C8: at most one wrapped operation runs while the breaker is half-open, and
\* the breaker's fields are read only between complete transitions: whenever
\* the lock is free no call is part-way through, the state is not half-open
\* and it agrees with the failure count; only the lock's holder is inside.
C8_OneProbeLinearized ==
    /\ state = "half-open" => Cardinality({t \in Threads : pc[t] = "func"}) <= 1
    /\ Cardinality(InCriticalSection) <= 1
    /\ \A t \in InCriticalSection : cb_lock = t
    /\ cb_lock = NoThread =>
          /\ state # "half-open"
          /\ state = "closed" <=> failure_count < failure_threshold
    /\ gate.seen # "half-open"

C8_Witness ==
    /\ state = "half-open"
    /\ \E t \in Threads : pc[t] = "func" /\ cb_lock = t
    /\ \E t \in Threads : pc[t] = "idle"
    /\ outcome.kind = "rejected"

\* ------------------------------------------- claims about the ErrorHandler

\* the count error_stats holds for a scraper and a category (0: no entry)
CountOf(stats, s, c) == DictGet(DictGet(ByScraper(stats), s, EmptyDict), c, 0)

AllLedgerIdle == \A t \in Threads : lpc[t] = "idle"

\* C7: get_circuit_breaker builds at most one CircuitBreaker per name, and
\* the breaker each caller was handed is the one the registry holds under
\* that name, whatever the interleaving of the callers.
C7_OneBreakerPerName ==
    /\ \A name \in Scrapers :
          Cardinality({i \in 1..Len(instances) : instances[i] = name}) <= 1
    /\ \A t \in Threads :
          held[t] # NoHeld => held[t].id = circuit_breakers[held[t].name]

\* C9: whenever the counters can be read (the handler's lock is free), the
\* counter of every (scraper, category) equals the number of log_error calls
\* that logged that category for that scraper, no other entry exists, and
\* total_errors equals the number of those calls.
C9_LedgerAggregation ==
    h_lock = NoThread =>
        /\ \A s \in Scrapers, c \in Categories :
              CountOf(error_stats, s, c) = stored[<<s, c>>]
        /\ \A s \in DOMAIN error_stats :
              /\ s \in Scrapers
              /\ \A c \in DOMAIN error_stats[s] : stored[<<s, c>>] > 0
        /\ TotalErrors(error_stats) = SumValues(stored)

\* 2 network errors and 1 parsing error logged for X give
\* by_scraper["X"] = {network: 2, parsing: 1} and total_errors = 3
C9_Witness ==
    /\ AllLedgerIdle
    /\ "X" \in DOMAIN error_stats
    /\ DOMAIN error_stats["X"] = {"network", "parsing"}
    /\ error_stats["X"]["network"] = 2
    /\ error_stats["X"]["parsing"] = 1
    /\ TotalErrors(error_stats) = 3

\* the log_error calls that have begun and not yet updated their counter
PendingIncrements ==
    Cardinality({t \in Threads : lpc[t] \in {"log_lock", "log_store"}})

\* C10: in every interleaving of concurrent log_error calls the counters add
\* up to the number of calls whose update has been made, so that once every
\* call has completed they add up to the number of calls: no increment is
\* lost.
C10_NoLostIncrement ==
    /\ TotalErrors(error_stats) = log_calls - PendingIncrements
    /\ AllLedgerIdle => TotalErrors(error_stats) = log_calls

\* two calls for the same counter are in progress at once, and both are
\* counted
C10_Witness ==
    \E t, u \in Threads :
        /\ t # u
        /\ lpc[t] = "log_emit"
        /\ lpc[u] = "log_emit"
        /\ local[t].scraper = local[u].scraper
        /\ local[t].category = local[u].category
        /\ CountOf(error_stats, local[t].scraper, local[t].category) = log_calls
        /\ log_calls = 2

\* -------------------------------------------- claims about retry_with_backoff

InvokeIndexes == {i \in 1..Len(trace) : trace[i].ev = "invoke"}

\* the number of times the wrapper has called the decorated function
Invocations == Cardinality(InvokeIndexes)

\* the attempt number of the invocation at place i of the trace
AttemptAt(i) == Cardinality({j \in InvokeIndexes : j <= i})

Retryable(error) ==
    /\ error # NoError
    /\ ~IsInstance(error.type, config.stop_on_exceptions)
    /\ IsInstance(error.type, config.retry_on_exceptions)

EveryAttemptFailedRetryably ==
    \A i \in InvokeIndexes : Retryable(trace[i].error)

\* the entries the sink holds for one attempt
SinkEntriesOfAttempt(k) ==
    SumValues([entry \in {x \in DOMAIN log_sink : x.attempt = k} |-> log_sink[entry]])

\* C4: the wrapper calls the decorated function at most max_attempts times,
\* and when every call fails with a retryable error it calls it exactly
\* max_attempts times and then raises.
C4_RetryBound ==
    /\ Invocations <= config.max_attempts
    /\ (rpc = "done" /\ EveryAttemptFailedRetryably)
          => (Invocations = config.max_attempts /\ result.kind = "raised")

C4_Witness ==
    /\ rpc = "done"
    /\ config.max_attempts = MaxAttempts
    /\ EveryAttemptFailedRetryably
    /\ Invocations = MaxAttempts
    /\ result.kind = "raised"

\* C5: an error matching stop_on_exceptions ends the call at once, also when
\* it matches retry_on_exceptions too: it is the last event (no sleep and no
\* further invocation follow, so a first-attempt error means exactly one
\* invocation whatever max_attempts is), it is re-raised to the caller, and
\* it is logged once, at critical severity.
C5_StopShortCircuit ==
    \A i \in InvokeIndexes :
        (trace[i].error # NoError
            /\ IsInstance(trace[i].error.type, config.stop_on_exceptions))
        => /\ i = Len(trace)
           /\ rpc = "done"
           /\ result = [kind |-> "raised", error |-> trace[i].error]
           /\ SinkEntriesOfAttempt(AttemptAt(i)) = 1
           /\ DictGet(log_sink,
                      LogEntry(FuncModule, CategoryOf[trace[i].error], "critical",
                               AttemptAt(i)), 0) = 1
           /\ TotalErrors(error_stats) = Invocations

C5_Witness ==
    /\ config.max_attempts = MaxAttempts
    /\ config.stop_on_exceptions = {"ValueError"}
    /\ config.retry_on_exceptions = {"Exception"}
    /\ rpc = "done"
    /\ Len(trace) = 1
    /\ trace[1].error.type = "ValueError"
    /\ result.kind = "raised"

\* the places of the trace where the breaker rejected the call
Rejections == {i \in InvokeIndexes : ~trace[i].op}

SleepIndexes == {i \in 1..Len(trace) : trace[i].ev = "sleep"}

\* C11: when the decorated function returns on attempt k the wrapper returns
\* at once (that invocation is the last event and the call is over with a
\* result), the function has been invoked exactly k times, and for k = 1
\* there was exactly one invocation, no sleep, and nothing was logged or
\* counted.
C11_SuccessPath ==
    \A i \in InvokeIndexes :
        trace[i].error = NoError =>
            /\ i = Len(trace)
            /\ rpc = "done"
            /\ result = [kind |-> "returned", error |-> NoError]
            /\ AttemptAt(i) = attempt
            /\ Invocations = attempt
            /\ attempt <= config.max_attempts
            /\ attempt = 1 => /\ Len(trace) = 1
                              /\ SleepIndexes = {}
                              /\ log_sink = EmptyDict
                              /\ error_stats = EmptyDict

\* the function returns on the last attempt the configuration allows
C11_Witness ==
    /\ rpc = "done"
    /\ result.kind = "returned"
    /\ config.max_attempts = MaxAttempts
    /\ attempt = MaxAttempts
    /\ Invocations = MaxAttempts
    /\ Cardinality(SleepIndexes) = MaxAttempts - 1

\* min(base_delay * exponential_base^(k-1), max_delay) of the configuration
CappedDelay(k) ==
    LET raw == config.base_delay * Pow(config.exponential_base, k - 1)
    IN  IF raw <= config.max_delay THEN raw ELSE config.max_delay

\* C12: the sleep after failed attempt k happens only for k < max_attempts;
\* without jitter it lasts min(base_delay * exponential_base^(k-1), max_delay),
\* which does not decrease from one sleep to the next and never exceeds
\* max_delay; with jitter it lasts between 0.5 and 1.0 times that value.
C12_BackoffDelay ==
    \A i \in SleepIndexes :
        LET k == AttemptAt(i)
        IN  /\ k < config.max_attempts
            /\ trace[i].ms <= config.max_delay
            /\ ~config.jitter => trace[i].ms = CappedDelay(k)
            /\ config.jitter => /\ 2 * trace[i].ms >= CappedDelay(k)
                                /\ trace[i].ms <= CappedDelay(k)
            /\ ~config.jitter =>
                  \A j \in SleepIndexes : j < i => trace[j].ms <= trace[i].ms

\* without jitter the second delay, 2000 uncapped, is cut to max_delay = 1500
C12_Witness ==
    /\ ~config.jitter
    /\ config.max_delay = 1500
    /\ Len(trace) >= 4
    /\ trace[2] = SleepEvent(1000)
    /\ trace[4] = SleepEvent(1500)

\* invocations and sleeps alternate, starting with an invocation; a sleep
\* follows only a failed attempt that is not the last one; the call never
\* ends on a sleep
SleepPlacement ==
    /\ \A i \in 1..Len(trace) : (trace[i].ev = "invoke") <=> (i % 2 = 1)
    /\ \A i \in SleepIndexes :
          /\ AttemptAt(i) < config.max_attempts
          /\ trace[i - 1].error # NoError
    /\ rpc = "call" => Len(trace) = 2 * (attempt - 1)
    /\ rpc = "done" => /\ Len(trace) >= 1
                       /\ trace[Len(trace)].ev = "invoke"

\* the example: max_attempts = 3, base_delay = 1, multiplier = 2,
\* max_delay = 10, no jitter, and the function fails twice then returns
ExampleRun ==
    /\ config.max_attempts = 3
    /\ config.base_delay = 1000
    /\ config.exponential_base = 2
    /\ config.max_delay = 10000
    /\ ~config.jitter
    /\ rpc = "done"
    /\ result.kind = "returned"
    /\ Invocations = 3

ExampleOrder ==
    /\ Len(trace) = 5
    /\ [i \in 1..5 |-> <<trace[i].ev, trace[i].ms>>]
          = << <<"invoke", 0>>, <<"sleep", 1000>>, <<"invoke", 0>>,
               <<"sleep", 2000>>, <<"invoke", 0>> >>

NoCriticalLogged == \A entry \in DOMAIN log_sink : entry.severity # "critical"

\* C13 as stated: the wrapper sleeps exactly once between two consecutive
\* attempts and never after the last attempt or after a success; in the
\* example the events are invoke, sleep 1, invoke, sleep 2, invoke, return,
\* and no error is logged at critical severity.
C13_SleepPlacement ==
    /\ SleepPlacement
    /\ ExampleRun => (ExampleOrder /\ NoCriticalLogged)

\* C13 as amended: the same placement and the same order of events; each of
\* the two failures is logged once, at the severity determine_severity gives
\* its error, which is critical when the error is of category authentication
\* (and only then: none goes through the stop_on_exceptions clause).
C13_SleepPlacementBySeverity ==
    /\ SleepPlacement
    /\ ExampleRun =>
          /\ ExampleOrder
          /\ \A i \in {1, 3} :
                /\ SinkEntriesOfAttempt(AttemptAt(i)) = 1
                /\ DictGet(log_sink,
                           LogEntry(FuncModule, CategoryOf[trace[i].error],
                                    SeverityOf[trace[i].error], AttemptAt(i)), 0) = 1
          /\ SinkEntriesOfAttempt(3) = 0
          /\ (\A i \in {1, 3} : CategoryOf[trace[i].error] # "authentication")
                => NoCriticalLogged

\* the example run, its failures being a 401 and then a parsing error
C13_Witness ==
    /\ ExampleRun
    /\ ExampleOrder
    /\ CategoryOf[trace[1].error] = "authentication"
    /\ CategoryOf[trace[3].error] = "parsing"
    /\ ~NoCriticalLogged

\* C14: when every attempt fails with a retryable error, the first
\* max_attempts - 1 failures are swallowed (a sleep follows each and nothing
\* is raised while attempts remain) and the call then raises the error of the
\* last attempt itself.
C14_ExhaustionRaisesLast ==
    /\ rpc # "done" => result = NoResult
    /\ (rpc = "done" /\ EveryAttemptFailedRetryably) =>
          /\ Invocations = config.max_attempts
          /\ result = [kind |-> "raised", error |-> trace[Len(trace)].error]
          /\ \A i \in InvokeIndexes : i < Len(trace) => trace[i + 1].ev = "sleep"

\* the attempts failed with different errors, and the last one's is raised
C14_Witness ==
    /\ rpc = "done"
    /\ config.max_attempts = MaxAttempts
    /\ EveryAttemptFailedRetryably
    /\ Invocations = MaxAttempts
    /\ trace[1].error # trace[Len(trace)].error
    /\ result = [kind |-> "raised", error |-> trace[Len(trace)].error]

\* ------------------------------------------- claims about the classifier

\* the order in which the categories are said to be tested
PriorityOrder ==
    <<"network", "rate_limit", "authentication", "parsing", "validation",
      "resource">>

\* the keywords error_patterns lists under a category
KeywordsOf(category) ==
    LET k == CHOOSE i \in 1..Len(ErrorPatterns) :
                 ErrorPatterns[i].category = category
    IN  {ErrorPatterns[k].patterns[j] : j \in 1..Len(ErrorPatterns[k].patterns)}

\* for each sample error, the places in PriorityOrder of the categories that
\* have a keyword in its lower-cased message or type name
MatchedRanks ==
    [e \in ClassifierErrors |->
        LET text == Lower(e.msg) \o " | " \o Lower(e.type)
        IN  {r \in 1..Len(PriorityOrder) :
                \E kw \in KeywordsOf(PriorityOrder[r]) : Contains(text, kw)}]

\* C19: categorize_error returns the category earliest in the order network,
\* rate_limit, authentication, parsing, validation, resource among those with
\* a keyword in the lower-cased message or type name, and unknown if and only
\* if no category has one.
C19_ClassificationPriority ==
    verdict # NoVerdict =>
        LET ranks == MatchedRanks[sample.error]
        IN  /\ verdict.category = "unknown" <=> ranks = {}
            /\ ranks # {} =>
                  /\ verdict.category \in {PriorityOrder[r] : r \in ranks}
                  /\ \A r \in ranks :
                        \A q \in 1..(r - 1) :
                            verdict.category = PriorityOrder[r] => q \notin ranks
            /\ sample.error = [type |-> "ValueError",
                               msg |-> "Timeout: invalid format"]
                  => verdict.category = "network"

\* a message with a parsing keyword before an authentication keyword is
\* classified as authentication
C19_Witness ==
    /\ sample.error = [type |-> "ValueError", msg |-> "Malformed - 401"]
    /\ MatchedRanks[sample.error] = {3, 4}
    /\ verdict.category = "authentication"

\* the severity said to belong to each category
SeverityLookup ==
    [authentication |-> "critical", resource |-> "high", network |-> "medium",
     rate_limit |-> "medium", parsing |-> "low", validation |-> "low",
     unknown |-> "medium"]

C15_StatisticsSnapshot ==
    \A t \in Threads :
        statistics[t].kind = "returned" =>
            /\ BySnapshot(statistics[t], error_stats) = statistics[t].by_scraper
            /\ statistics[t].total_errors
                  = TotalErrors(BySnapshot(statistics[t], error_stats))

\* a step of get_error_statistics
StatisticsStep ==
    \E t \in Threads : lpc'[t] # lpc[t] /\ "stats_iter" \in {lpc[t], lpc'[t]}

\* C16: no step of get_error_statistics changes an error counter, the breaker
\* registry, or the state, failure count or last_failure_time of a breaker.
C16_StatisticsReadOnly ==
    [][StatisticsStep =>
          UNCHANGED <<error_stats, stored, circuit_breakers, instances,
                      instance_fields, state, failure_count, last_failure_time>>]_vars

\* the statistics were returned for a handler with two errors counted and an
\* open breaker, which are as they were
C16_Witness ==
    \E t \in Threads :
        /\ statistics[t].kind = "returned"
        /\ statistics[t].total_errors = 2
        /\ DOMAIN statistics[t].circuit_breaker_states = {"X"}
        /\ statistics[t].circuit_breaker_states["X"].state = "open"
        /\ h_lock = NoThread
        /\ TotalErrors(error_stats) = 2
        /\ error_stats = statistics[t].by_scraper
        /\ circuit_breakers = DictSet(EmptyDict, "X", 1)
        /\ instance_fields = <<OpenBreakerFields>>

\* C17: circuit_breaker_states of every value get_error_statistics returned
\* has an entry for each breaker a caller of get_circuit_breaker had been
\* handed by then, and the state in that entry is the state of the instance
\* that caller was handed.
C17_StatisticsCoverBreakers ==
    \A u \in Threads :
        statistics[u].kind = "returned" =>
            \A t \in Threads :
                LET h == statistics[u].held[t]
                    reported == statistics[u].circuit_breaker_states
                IN  h # NoHeld =>
                        /\ h.name \in DOMAIN reported
                        /\ reported[h.name].id = h.id


\* ------------------------------------------------- claims about the locks

\* the components whose lock thread t holds
LocksHeld(t) ==
    (IF cb_lock = t THEN {"breaker"} ELSE {})
        \cup (IF h_lock = t THEN {"handler"} ELSE {})
        \cup (IF m_lock = t THEN {"monitor"} ELSE {})

\* thread t is inside call() or a method of the handler or the monitor
InFlight(t) == pc[t] # "idle" \/ lpc[t] # "idle" \/ mpc[t] # "idle"

\* thread t is at a `with self.lock` whose lock another thread holds
Blocked(t) ==
    \/ lpc[t] = "log_lock" /\ ~LockFree(h_lock)
    \/ mpc[t] = "rec_lock" /\ ~LockFree(m_lock)

\* whenever a thread is inside an operation, a thread inside an operation can
\* take its next step
NoDeadlock ==
    (\E t \in Threads : InFlight(t))
        => \E t \in Threads : InFlight(t) /\ ~Blocked(t)

OperationsOf(m, s) == DictGet(m, s, << >>)

\* lst begins with the whole of earlier
IsPrefix(earlier, lst) ==
    /\ Len(earlier) <= Len(lst)
    /\ SubSeq(lst, 1, Len(earlier)) = earlier

\* thread t completes a record_operation call in this step
RecordCompletes(t) == mpc[t] = "rec_append" /\ mpc'[t] = "idle"

\* C21: every step keeps each source's list as a prefix of what it becomes
\* and keeps the sources that have a list; a step that completes a
\* record_operation call puts the metric of that call at the end of its
\* source's list, one entry longer, and leaves the other lists alone; any
\* other step changes no list's content; and the length of a source's list
\* is the number of record_operation calls completed for it.
C21_AppendOnly ==
    [][/\ \A s \in DOMAIN metrics :
              s \in DOMAIN metrics' /\ IsPrefix(metrics[s], metrics'[s])
       /\ \A t \in Threads :
              RecordCompletes(t) =>
                  LET s == mlocal[t].scraper_name
                  IN  /\ s \in DOMAIN metrics'
                      /\ metrics'[s] = Append(OperationsOf(metrics, s),
                                              [timestamp |-> now,
                                               operation |-> mlocal[t].operation,
                                               duration |-> mlocal[t].duration,
                                               success |-> mlocal[t].success])
                      /\ \A o \in Sources \ {s} :
                             OperationsOf(metrics', o) = OperationsOf(metrics, o)
       /\ (\A t \in Threads : ~RecordCompletes(t)) =>
              \A s \in Sources : OperationsOf(metrics', s) = OperationsOf(metrics, s)
       /\ \A s \in Sources : Len(OperationsOf(metrics', s)) = completed'[s]
      ]_vars

\* one of two concurrent record_operation calls for "X" has completed, its
\* metric following the earlier ones, while the other waits for the lock
C21_Witness ==
    \E t, u \in Threads :
        /\ t # u
        /\ mpc[t] = "idle"
        /\ mpc[u] = "rec_lock"
        /\ mlocal[u].scraper_name = "X"
        /\ completed["X"] = PriorRecords + 1
        /\ Len(OperationsOf(metrics, "X")) = PriorRecords + 1
        /\ IsPrefix(PriorOperations, metrics["X"])

\* thread t returns from get_performance_summary in this step
SummaryReturns(t) == mpc[t] = "summary" /\ mpc'[t] = "idle"

\* entry reports operations, a list that is not empty: their number, the
\* share of the successful ones, and the last ten of them in their order
Reports(entry, operations) ==
    LET n == Len(operations)
        k == Min(n, RecentWindow)
    IN  /\ entry.total_operations = n
        /\ entry.success_rate
              = <<Cardinality({i \in 1..n : operations[i].success}), n>>
        /\ entry.recent_operations = [i \in 1..k |-> operations[n - k + i]]

\* C22: the summary get_performance_summary returns for a source with
\* recorded operations has an entry for the source that reports its
\* operations; called without a source, it has such an entry for every
\* source with recorded operations.
C22_SummaryContent ==
    [][\A t \in Threads :
          SummaryReturns(t) =>
              \A s \in Sources :
                  (/\ mlocal[t].scraper_name \in {s, "None"}
                   /\ Len(OperationsOf(metrics, s)) >= 1)
                      => /\ s \in DOMAIN summary'[t]
                         /\ Reports(summary'[t][s], metrics[s])
      ]_vars

\* a summary was returned for "X" with more operations recorded than the
\* summary lists: it lists the last ones, and the rate counts them all
C22_Witness ==
    \E t \in Threads :
        /\ mpc[t] = "idle"
        /\ "X" \in DOMAIN summary[t]
        /\ summary[t]["X"].total_operations = Len(OperationsOf(metrics, "X"))
        /\ summary[t]["X"].total_operations > RecentWindow
        /\ Len(summary[t]["X"].recent_operations) = RecentWindow
        /\ summary[t]["X"].recent_operations[1] # metrics["X"][1]
        /\ summary[t]["X"].recent_operations[RecentWindow]
              = metrics["X"][Len(metrics["X"])]
        /\ summary[t]["X"].success_rate[2] = Len(metrics["X"])

\* C23: the summary get_performance_summary(s) returns for a source s with
\* no recorded operations is empty, or has only an entry for s that counts
\* no operations, and the call leaves the monitor's metrics as they were.
C23_EmptySummary ==
    [][\A t \in Threads :
          (/\ SummaryReturns(t)
           /\ mlocal[t].scraper_name \in Sources
           /\ Len(OperationsOf(metrics, mlocal[t].scraper_name)) = 0)
              => /\ DOMAIN summary'[t] \subseteq {mlocal[t].scraper_name}
                 /\ \A s \in DOMAIN summary'[t] :
                        summary'[t][s].total_operations = 0
                 /\ metrics' = metrics
      ]_vars

\* ----------------------------- further claims about the CircuitBreaker

\* the operation thread t runs inside call() returns in this step
CallSucceeds(t) == pc[t] = "func" /\ pc'[t] = "idle"

\* the operation thread t runs inside call() raises in this step
CallFails(t) == pc[t] = "func" /\ pc'[t] = "on_failure"

\* C24: a call whose operation returns leaves failure_count at 0, a call
\* whose operation raises adds exactly one to it, and the breaker is out of
\* the closed state only when the failing calls in a row have reached
\* failure_threshold.
C24_ConsecutiveFailures ==
    [][/\ \A t \in Threads : CallSucceeds(t) => failure_count' = 0
       /\ \A t \in Threads : CallFails(t) => failure_count' = failure_count + 1
       /\ state' # "closed" => streak' >= failure_threshold
       /\ (cb_lock' = NoThread /\ state' = "closed") => failure_count' = streak'
      ]_vars

\* more calls have failed than failure_threshold, none of them followed by
\* failure_threshold - 1 others in a row, and the breaker is closed; it was
\* never open, since no time has passed in which it could have recovered
C24_Witness ==
    /\ now = 0
    /\ recovery_timeout = DefaultRecoveryTimeout
    /\ failure_threshold > 1
    /\ failed_calls > failure_threshold
    /\ streak < failure_threshold
    /\ streak = 1
    /\ cb_lock = NoThread
    /\ state = "closed"

\* C25: between calls, a closed breaker has a failure_count below
\* failure_threshold, and a breaker that is open or half-open has a
\* failure_count of at least failure_threshold and a last_failure_time; and
\* _should_attempt_reset is never asked about a breaker without a
\* last_failure_time.
C25_StateInvariant ==
    /\ cb_lock = NoThread =>
          /\ state = "closed" => failure_count < failure_threshold
          /\ state \in {"open", "half-open"} =>
                /\ failure_count >= failure_threshold
                /\ last_failure_time # None
    /\ state # "closed" => last_failure_time # None
    /\ gate.seen = "open" => last_failure_time # None

\* the breaker has opened, recovered through a successful probe and opened
\* again: it is open between calls, with its count at the threshold and the
\* time of the last failure
C25_Witness ==
    /\ cb_lock = NoThread
    /\ state = "open"
    /\ failure_count = failure_threshold
    /\ failed_calls > failure_threshold
    /\ last_failure_time # None
    /\ last_failure_time > 0
    /\ outcome.kind = "fail"

\* thread t's call() raises CircuitBreakerOpenError in this step
CallRejected(t) ==
    /\ pc[t] = "idle"
    /\ pc'[t] = "idle"
    /\ gate' = [seen |-> "open", elapsed |-> now - last_failure_time,
                admitted |-> FALSE]
    /\ outcome'.kind = "rejected"
    /\ cb_lock = NoThread

\* C26: a call() that raises CircuitBreakerOpenError leaves the breaker's
\* state, failure_count and last_failure_time as they were, and its lock
\* free.
C26_RejectionChangesNothing ==
    [][(\E t \in Threads : CallRejected(t))
          => /\ UNCHANGED <<state, failure_count, last_failure_time>>
             /\ state = "open"
             /\ cb_lock' = NoThread
      ]_vars

\* a call was rejected some time after the breaker had opened at its
\* threshold: the count and the time of the last failure are those of the
\* opening
C26_Witness ==
    /\ outcome = [kind |-> "rejected", probe |-> FALSE, at |-> now]
    /\ gate.seen = "open"
    /\ ~gate.admitted
    /\ now > 0
    /\ last_failure_time = 0
    /\ state = "open"
    /\ failure_count = failure_threshold
    /\ streak = failure_threshold
    /\ cb_lock = NoThread

\* C27: at most one thread is inside the `with self.lock` block of call(),
\* and it holds the lock; while a thread is inside, whatever the state of
\* the breaker, no other caller gets a decision of the gate: none starts its
\* operation and none is rejected.
C27_MutualExclusion ==
    [][/\ Cardinality(InCriticalSection') <= 1
       /\ \A t \in InCriticalSection' : cb_lock' = t
       /\ InCriticalSection # {} =>
             /\ state # "open"
             /\ \A u \in Threads : pc[u] = "idle" => pc'[u] = "idle"
             /\ UNCHANGED gate
             /\ outcome'.kind = "rejected" => outcome' = outcome
      ]_vars

\* a thread runs its operation through a closed breaker that has counted a
\* failure, and holds the lock, the other threads being outside
C27_Witness ==
    \E t \in Threads :
        /\ pc[t] = "func"
        /\ cb_lock = t
        /\ state = "closed"
        /\ gate.seen = "closed"
        /\ failure_count = 1
        /\ \A u \in Threads \ {t} : pc[u] = "idle"

\* C28: every call() a thread is inside comes to its end, the operations
\* themselves terminating, also when an operation calls call() of the same
\* breaker again.
C28_CallTerminates ==
    \A t \in Threads : (pc[t] # "idle") ~> (pc[t] = "idle")

\* ------------------------------------ claims about handle_scraper_errors

\* the count of a category of a scraper in the ledger's counters
CounterOf(stats, scraper, category) ==
    DictGet(DictGet(stats, scraper, EmptyDict), category, 0)

\* the counters are those of the entry of the wrapper, but for the one of
\* the category of the scraper, which is one more
OneMoreCounted(scraper, category) ==
    \A sc \in Scrapers, c \in Categories :
        CounterOf(error_stats, sc, c)
            = CounterOf(at_entry.error_stats, sc, c)
                 + (IF sc = scraper /\ c = category THEN 1 ELSE 0)

\* C29: when the wrapper has raised, the exception is the one its except
\* clause caught, the error of the function or the CircuitBreakerOpenError
\* of the rejection, and exactly one counter of scraper_name is one more than
\* when the wrapper was entered, all others being the same; the exception
\* is not raised before it is counted; when the wrapper has returned, every
\* counter is as it was and the breaker's failure_count is 0.
C29_Propagation ==
    /\ (hpc = "idle" /\ hresult.kind = "raised") =>
          /\ hresult.error = caught
          /\ caught \in OpErrors \cup {BreakerOpenError}
          /\ \E category \in Categories : OneMoreCounted(HseScraper, category)
          /\ log_calls = at_entry.log_calls + 1
    /\ hpc = "except" =>
          /\ hresult.kind = "none"
          /\ caught \in OpErrors \cup {BreakerOpenError}
    /\ (hpc = "idle" /\ hresult.kind = "returned") =>
          /\ \A sc \in Scrapers, c \in Categories :
                CounterOf(error_stats, sc, c) = CounterOf(at_entry.error_stats, sc, c)
          /\ log_calls = at_entry.log_calls
          /\ failure_count = 0
          /\ state = "closed"

\* the probe of an open breaker has failed and been counted, and the next
\* call was rejected: the wrapper has raised the CircuitBreakerOpenError, and
\* one more error is counted for the scraper
C29_Witness ==
    /\ hpc = "idle"
    /\ hresult = [kind |-> "raised", error |-> BreakerOpenError]
    /\ state = "open"
    /\ failure_count = DefaultFailureThreshold + 1
    /\ TotalErrors(at_entry.error_stats) = 1
    /\ TotalErrors(error_stats) = 2
    /\ DOMAIN error_stats = {HseScraper}

\* ------------------------------- a further claim about retry_with_backoff

\* error matches neither stop_on_exceptions nor retry_on_exceptions
Unlisted(error) ==
    /\ error # NoError
    /\ ~IsInstance(error.type, config.stop_on_exceptions)
    /\ ~IsInstance(error.type, config.retry_on_exceptions)

\* C30: an invocation that raises an error matching neither
\* stop_on_exceptions nor retry_on_exceptions is the last event of the call
\* (no sleep and no further invocation follow), its error is raised to the
\* caller, and nothing is logged or counted for it: the ledger holds what
\* the invocations before it have logged.
C30_UnlistedPropagates ==
    \A i \in InvokeIndexes :
        Unlisted(trace[i].error)
        => /\ i = Len(trace)
           /\ rpc = "done"
           /\ result = [kind |-> "raised", error |-> trace[i].error]
           /\ SinkEntriesOfAttempt(AttemptAt(i)) = 0
           /\ TotalErrors(error_stats) = Invocations - 1
           /\ SumValues(log_sink) = Invocations - 1

\* retry_on_exceptions is narrowed to ValueError: the first attempt raised a
\* ValueError, which was logged and slept on; the second raised an error
\* that is not listed, which ended the call with one error counted
C30_Witness ==
    /\ config.retry_on_exceptions = {"ValueError"}
    /\ config.stop_on_exceptions = {}
    /\ config.max_attempts = MaxAttempts
    /\ rpc = "done"
    /\ Len(trace) = 3
    /\ trace[1].error.type = "ValueError"
    /\ trace[2].ev = "sleep"
    /\ trace[3].ev = "invoke"
    /\ Unlisted(trace[3].error)
    /\ result = [kind |-> "raised", error |-> trace[3].error]
    /\ TotalErrors(error_stats) = 1

=============================================================================
